---- MODULE Spec2Model ----
(***************************************************************************)
(* Reference resolution of the story creator: the unit store, the story    *)
(* row's undefined_names and the request handlers add_unit, edit_unit,     *)
(* delete_unit and add_existing_unit of blueprints/main.py, with           *)
(* process_form_submission and update_references_with_new_unit of          *)
(* story_creator/database_handler.py.  One action is one request, run to   *)
(* completion.                                                             *)
(***************************************************************************)
EXTENDS Integers, Sequences, FiniteSets, TLC

\* ---------------------------------------------------------------- bounds
\* number of requests a behaviour of the model sends
MaxRequests == 3
\* most reference entries (list entries and non-empty string features) a
\* submitted form carries
MaxRefs == 2
\* number of create-story requests a behaviour of the model sends
MaxStoryRequests == 4
\* number of requests a behaviour with fill_features requests sends
MaxFillRequests == 2

\* ---------------------------------------------------------------- inputs
Names == {"a", "b", "c"}

\* what a user can type into the name field
NameInputs == {"", " ", " a ", "b", "c"}


\* the users and the stories of the store: story 1 belongs to the user who
\* sends the requests, story 2 to somebody else, story 3 does not exist
CurrentUser == "u1"
StoryIds == {1, 2}
RequestStoryIds == {1, 2, 3}
StoryOwner == [s \in StoryIds |-> IF s = 1 THEN "u1" ELSE "u2"]
Users == {"u1", "u2"}

\* the rows of the stories of StoryIds
StoryRows ==
  {[id |-> s, name |-> IF s = 1 THEN "a" ELSE "b", user_email |-> StoryOwner[s],
    setting_and_style |-> "s", main_challenge |-> "m"] : s \in StoryIds}

\* what a user can type into the fields of the create-story form
StoryNameInputs == {"", " a ", "a", "b"}
SettingInputs == {"", " ", "s"}
ChallengeInputs == {"", "m"}

\* ---------------------------------------------------------------- strings
\* str.strip() on the strings above
Strip(s) ==
  IF s = " " THEN ""
  ELSE IF s = " a " THEN "a"
  ELSE s

\* str.split(', ') on the strings above
SplitComma(s) ==
  IF s = "a, b" THEN <<"a", "b">> ELSE <<s>>

\* ---------------------------------------------------------------- schema
\* Group.feature_schema, in insertion order
GroupSchema ==
  << [key |-> "name", type |-> "str"],
     [key |-> "Who is part of the group?", type |-> "list"],
     [key |-> "Reason for solidarity", type |-> "str"],
     [key |-> "Where did the group first meet?", type |-> "list"] >>

UnitTypes == {"Group"}
RequestUnitTypes == UnitTypes \cup {"Bogus"}

feature_schema(t) == GroupSchema

SchemaKeys(t) == {feature_schema(t)[i].key : i \in 1..Len(feature_schema(t))}
ListKeys(t) ==
  {feature_schema(t)[i].key :
     i \in {j \in 1..Len(feature_schema(t)) : feature_schema(t)[j].type = "list"}}
StrKeys(t) ==
  {feature_schema(t)[i].key :
     i \in {j \in 1..Len(feature_schema(t)) : feature_schema(t)[j].type = "str"}}

\* ---------------------------------------------------------------- state
VARIABLES
  units,        \* the unit table: a set of rows [id, story_id, unit_type, name, features]
  undefined,    \* story id -> the story row's undefined_names (a list)
  nextId,       \* the next id of the unit table
  requests,     \* number of requests sent so far
  last,         \* the request that ran last and how it ended
  stories,      \* the story table without the undefined_names column: a set of
                \* rows [id, name, user_email, setting_and_style, main_challenge]
  proc          \* per worker: the request it is handling, the objects the
                \* handler holds in memory, and the call it makes next

vars == <<units, undefined, nextId, requests, last, stories, proc>>

SeqToSet(s) == {s[i] : i \in 1..Len(s)}

\* get_units_by_story_id without the WHERE story_id = ?
get_units_by_story_idAll(U, sid) == U

\* get_units_by_story_id
get_units_by_story_id(U, sid) == {u \in U : u.story_id = sid}

UnitNames(U, sid) == {u.name : u \in get_units_by_story_id(U, sid)}

\* get_unit_by_name: the rows of that name in the story (fetchone takes one)
get_unit_by_name(U, sid, n) == {u \in U : u.story_id = sid /\ u.name = n}

\* get_unit_by_id
get_unit_by_id(U, id) == {u \in U : u.id = id}

\* ---------------------------------------------------------------- forms
\* request.form.to_dict(flat=False) of a save_unit submission: the name field,
\* per list feature the selected values and the "<feature>_new" text, per
\* string feature the text
\* the values selected in the list field of feature k
SelInputs(k) ==
  IF k = "Who is part of the group?"
  THEN {<<>>} \cup {<<n>> : n \in Names} \cup {<<n, m>> : n, m \in Names}
  ELSE {<<>>, <<"a">>}

\* what is typed into the "<feature>_new" text field of list feature k
NewInputs(k) ==
  IF k = "Who is part of the group?" THEN {"", "a, b"} ELSE {""}

\* what is typed into the text field of string feature k
StrInputs(k) == {"", " a "}

\* the functions on the keys K that take a value of Inputs(k) at each key k
FieldInputs(K, Inputs(_)) ==
  {f \in [K -> UNION {Inputs(k) : k \in K}] : \A k \in K : f[k] \in Inputs(k)}

RECURSIVE StripAll(_)
\* [v.strip() for v in vals if v.strip()]
StripAll(vals) ==
  IF vals = <<>> THEN <<>>
  ELSE IF Strip(Head(vals)) = "" THEN StripAll(Tail(vals))
  ELSE <<Strip(Head(vals))>> \o StripAll(Tail(vals))

\* combined_values of process_form_submission for one list feature
combined_values(form, k) == StripAll(form.sel[k] \o SplitComma(Strip(form.new[k])))

RECURSIVE SumOver(_, _)
SumOver(f, S) ==
  IF S = {} THEN 0
  ELSE LET k == CHOOSE x \in S : TRUE IN f[k] + SumOver(f, S \ {k})

FormRefs(form, t) ==
  SumOver([k \in ListKeys(t) |-> Len(combined_values(form, k))], ListKeys(t))
  + Cardinality({k \in StrKeys(t) \ {"name"} : Strip(form.str[k]) # ""})

GroupForms ==
  {f \in {g : g \in [name : NameInputs,
                      sel : FieldInputs(ListKeys("Group"), SelInputs),
                      new : FieldInputs(ListKeys("Group"), NewInputs),
                      str : FieldInputs(StrKeys("Group") \ {"name"}, StrInputs)]} :
     FormRefs(f, "Group") <= MaxRefs}

Forms(t) == GroupForms

\* the form of a request that is turned away before its form is read
NoForm == [name |-> "", sel |-> <<>>, new |-> <<>>, str |-> <<>>]

\* ------------------------------------------- process_form_submission
RECURSIVE AppendUndefinedUnchecked(_, _, _)
\* AppendUndefined without the test `v not in story.undefined_names`
AppendUndefinedUnchecked(vals, und, existing) ==
  IF vals = <<>> THEN und
  ELSE LET v == Head(vals) IN
       IF v \notin existing
       THEN AppendUndefinedUnchecked(Tail(vals), Append(und, v), existing)
       ELSE AppendUndefinedUnchecked(Tail(vals), und, existing)

RECURSIVE AppendUndefined(_, _, _)
\* for v in vals: if not get_unit_by_name(story.id, v) and v not in
\* story.undefined_names: story.undefined_names.append(v)
AppendUndefined(vals, und, existing) ==
  IF vals = <<>> THEN und
  ELSE LET v == Head(vals) IN
       IF v \notin existing /\ v \notin SeqToSet(und)
       THEN AppendUndefined(Tail(vals), Append(und, v), existing)
       ELSE AppendUndefined(Tail(vals), und, existing)

\* the value process_form_submission puts into features for one schema entry
FormFeature(form, entry) ==
  IF entry.key = "name" THEN Strip(form.name)
  ELSE IF entry.type = "str" THEN Strip(form.str[entry.key])
  ELSE combined_values(form, entry.key)

RECURSIVE FormUndefinedUnchecked(_, _, _, _, _)
\* FormUndefined without the test `v not in story.undefined_names`
FormUndefinedUnchecked(form, schema, i, und, existing) ==
  IF i > Len(schema) THEN und
  ELSE IF schema[i].type = "list"
  THEN FormUndefinedUnchecked(
         form, schema, i + 1,
         AppendUndefinedUnchecked(combined_values(form, schema[i].key), und, existing),
         existing)
  ELSE FormUndefinedUnchecked(form, schema, i + 1, und, existing)

RECURSIVE FormUndefined(_, _, _, _, _)
\* story.undefined_names after the loop over the schema, from entry i on
FormUndefined(form, schema, i, und, existing) ==
  IF i > Len(schema) THEN und
  ELSE IF schema[i].type = "list"
  THEN FormUndefined(form, schema, i + 1,
                     AppendUndefined(combined_values(form, schema[i].key), und, existing),
                     existing)
  ELSE FormUndefined(form, schema, i + 1, und, existing)

\* process_form_submission(form_data, feature_schema, story): the features it
\* returns and the undefined_names it leaves in the story object and, through
\* update_story, in the story row.  No schema entry of the modelled types can
\* fail to convert, so its error list is empty.
process_form_submission(form, t, sid, U, und) ==
  [features |-> [k \in SchemaKeys(t) |->
                   FormFeature(form, CHOOSE e \in SeqToSet(feature_schema(t)) : e.key = k)],
   undefined_names |-> FormUndefined(form, feature_schema(t), 1, und, UnitNames(U, sid))]

\* ------------------------------------------- update_references_with_new_unit
RECURSIVE ListValues(_, _, _)
\* the entries of the list-valued features of a unit, in the order
\* unit.features.items() yields them
ListValues(features, schema, i) ==
  IF i > Len(schema) THEN <<>>
  ELSE IF schema[i].type = "list"
  THEN features[schema[i].key] \o ListValues(features, schema, i + 1)
  ELSE ListValues(features, schema, i + 1)

RECURSIVE RemoveFirst(_, _)
\* list.remove(x)
RemoveFirst(s, x) ==
  IF s = <<>> THEN <<>>
  ELSE IF Head(s) = x THEN Tail(s)
  ELSE <<Head(s)>> \o RemoveFirst(Tail(s), x)

\* ReplaceName that stops after the first occurrence of old_name
ReplaceFirstName(value, old_name, name) ==
  LET at == {i \in 1..Len(value) : value[i] = old_name}
  IN IF at = {} THEN value
     ELSE [value EXCEPT ![CHOOSE i \in at : \A j \in at : i <= j] = name]

\* [unit.name if v == old_name else v for v in value]
ReplaceName(value, old_name, name) ==
  [i \in 1..Len(value) |-> IF value[i] = old_name THEN name ELSE value[i]]

\* ReconcileUndefined without the first loop
ReconcileUndefinedRemovalOnly(unit, U, und) ==
  IF unit.name \in SeqToSet(und) THEN RemoveFirst(und, unit.name) ELSE und

\* ReconcileUndefined that starts the first loop from an empty list
ReconcileUndefinedFresh(unit, U, und) ==
  AppendUndefined(ListValues(unit.features, feature_schema(unit.unit_type), 1),
                  <<>>, UnitNames(U, unit.story_id))

\* ReconcileUndefined without the removal of unit.name
ReconcileUndefinedKeepsName(unit, U, und) ==
  AppendUndefined(ListValues(unit.features, feature_schema(unit.unit_type), 1),
                  und, UnitNames(U, unit.story_id))

\* the first loop and the removal: story.undefined_names after them
ReconcileUndefined(unit, U, und) ==
  LET discovered ==
        AppendUndefined(ListValues(unit.features, feature_schema(unit.unit_type), 1),
                        und, UnitNames(U, unit.story_id))
  IN IF unit.name \in SeqToSet(discovered)
     THEN RemoveFirst(discovered, unit.name)
     ELSE discovered

\* RewrittenFeature without the branch for strings
RewrittenFeatureListsOnly(value, type, unit, old_name, names) ==
  IF type = "list"
  THEN IF old_name # "" /\ old_name \in SeqToSet(value)
       THEN ReplaceName(value, old_name, unit.name)
       ELSE value
  ELSE value

\* RewrittenFeature that takes old_name out of a list and appends unit.name
RewrittenFeatureAppends(value, type, unit, old_name, names) ==
  IF type = "list"
  THEN IF old_name # "" /\ old_name \in SeqToSet(value)
       THEN Append(SelectSeq(value, LAMBDA v : v # old_name), unit.name)
       ELSE value
  ELSE IF type = "str"
  THEN IF value = old_name THEN unit.name
       ELSE value
  ELSE value

\* the value one feature of another unit has after the loop body
RewrittenFeature(value, type, unit, old_name, names) ==
  IF type = "list"
  THEN IF old_name # "" /\ old_name \in SeqToSet(value)
       THEN ReplaceName(value, old_name, unit.name)
       ELSE value
  ELSE IF type = "str"
  THEN IF value = old_name THEN unit.name
       ELSE value
  ELSE value

\* whether the loop body sets `updated` for one feature of another unit
FeatureUpdated(value, type, unit, old_name, names) ==
  IF type = "list"
  THEN (old_name # "" /\ old_name \in SeqToSet(value))
       \/ (unit.name \in SeqToSet(value) /\ unit.name \notin names)
  ELSE IF type = "str"
  THEN value = old_name \/ (value = unit.name /\ unit.name \notin names)
  ELSE FALSE

SchemaType(t, k) == (CHOOSE e \in SeqToSet(feature_schema(t)) : e.key = k).type

\* another unit after the loop body
RewrittenUnit(o, unit, old_name, names) ==
  [o EXCEPT !.features =
     [k \in DOMAIN o.features |->
        IF k \in SchemaKeys(o.unit_type)
        THEN RewrittenFeature(o.features[k], SchemaType(o.unit_type, k), unit, old_name, names)
        ELSE o.features[k]]]

UnitUpdated(o, unit, old_name, names) ==
  \E k \in SchemaKeys(o.unit_type) \cap DOMAIN o.features :
     FeatureUpdated(o.features[k], SchemaType(o.unit_type, k), unit, old_name, names)

\* update_references_with_new_unit whose loop does not skip the unit itself
update_references_with_new_unitNoSkip(unit, old_name, U, und) ==
  LET rows == get_units_by_story_id(U, unit.story_id)
      names == UnitNames(U, unit.story_id)
      written == {o \in rows : UnitUpdated(o, unit, old_name, names)}
  IN [units |-> (U \ written) \cup {RewrittenUnit(o, unit, old_name, names) : o \in written},
      undefined_names |-> ReconcileUndefined(unit, U, und),
      updated |-> {o.id : o \in written}]

\* update_references_with_new_unit that also appends old_name to undefined_names
update_references_with_new_unitOldUndefined(unit, old_name, U, und) ==
  LET others == {o \in get_units_by_story_id(U, unit.story_id) : o.id # unit.id}
      names  == UnitNames(U, unit.story_id)
      written == {o \in others : UnitUpdated(o, unit, old_name, names)}
  IN [units |-> (U \ written) \cup {RewrittenUnit(o, unit, old_name, names) : o \in written},
      undefined_names |->
        AppendUndefined(<<old_name>>, ReconcileUndefined(unit, U, und), names),
      updated |-> {o.id : o \in written}]

\* update_references_with_new_unit(unit, story, old_name) on the unit table U
\* and the story's undefined_names und: the table, the list and the ids of the
\* units it wrote with update_unit
update_references_with_new_unit(unit, old_name, U, und) ==
  LET others == {o \in get_units_by_story_id(U, unit.story_id) : o.id # unit.id}
      names  == UnitNames(U, unit.story_id)
      written == {o \in others : UnitUpdated(o, unit, old_name, names)}
  IN [units |-> (U \ written) \cup {RewrittenUnit(o, unit, old_name, names) : o \in written},
      undefined_names |-> ReconcileUndefined(unit, U, und),
      updated |-> {o.id : o \in written}]

\* ------------------------------- services.update_references_with_new_unit
\* services_RewrittenFeature that replaces the first occurrence only
services_RewrittenFeatureFirstOnly(value, type, unit, old_name) ==
  IF type = "list"
  THEN IF old_name \in SeqToSet(value)
       THEN ReplaceFirstName(value, old_name, unit.name)
       ELSE value
  ELSE IF type = "str"
  THEN IF value = old_name THEN unit.name ELSE value
  ELSE value

\* the value one feature of another unit has after the loop body of
\* services.update_references_with_new_unit
services_RewrittenFeature(value, type, unit, old_name) ==
  IF type = "list"
  THEN IF old_name \in SeqToSet(value)
       THEN ReplaceName(value, old_name, unit.name)
       ELSE value
  ELSE IF type = "str"
  THEN IF value = old_name THEN unit.name ELSE value
  ELSE value

\* services.update_references_with_new_unit(unit, story, old_name) on the unit
\* table U: the table after its commit
services_update_references_with_new_unit(unit, old_name, U) ==
  LET others == {o \in U : o.story_id = unit.story_id /\ o.id # unit.id}
  IN (U \ others) \cup
     {[o EXCEPT !.features =
         [k \in DOMAIN o.features |->
            IF k \in SchemaKeys(o.unit_type)
            THEN services_RewrittenFeature(o.features[k], SchemaType(o.unit_type, k),
                                           unit, old_name)
            ELSE o.features[k]]] : o \in others}

\* ---------------------------------------------------------------- requests
NoRequest ==
  [op |-> "none", story_id |-> 0, outcome |-> "none", id |-> 0, name |-> "",
   old_name |-> "", updated |-> {}, waiting |-> FALSE, typed |-> ""]

\* the record of a request that was turned away before it touched a unit
Ended(op, sid, outcome) ==
  [NoRequest EXCEPT !.op = op, !.story_id = sid, !.outcome = outcome]

\* StoryDenied without the comparison of story.user_email
StoryDeniedOnlyMissing(sid) == sid \notin StoryIds

\* abort(404) for a missing story, abort(403) for somebody else's story
StoryDenied(sid) == sid \notin StoryIds \/ StoryOwner[sid] # CurrentUser

\* the record of a request that ended in abort(403), abort(404) or a 400: at
\* the story check ("denied") or at the unit or unit type ("not_found")
Turned(op, sid) ==
  Ended(op, 0, IF StoryDenied(sid) THEN "denied" ELSE "not_found")

\* the unit a user of story 2 made before the requests modelled here: a Group
\* "c" whose members list names "a", which story 2 does not have
LibraryUnit ==
  [id |-> 1, story_id |-> 2, unit_type |-> "Group", name |-> "c",
   features |-> [k \in SchemaKeys("Group") |->
                   IF k = "name" THEN "c"
                   ELSE IF k = "Who is part of the group?" THEN <<"a">>
                   ELSE IF k = "Reason for solidarity" THEN ""
                   ELSE <<>>]]

\* the workers that handle requests at the same time
Procs == {1, 2}

\* a unit object that is not there
NoUnit ==
  [id |-> 0, story_id |-> 0, unit_type |-> "", name |-> "", features |-> <<>>]

\* a worker that has no request
Idle ==
  [pc |-> "idle", op |-> "none", user |-> "", story_id |-> 0, form |-> NoForm,
   unit |-> NoUnit, old_name |-> "", undefined_names |-> <<>>, pending |-> <<>>,
   outcome |-> "none", und0 |-> <<>>, units0 |-> {}, overlap |-> FALSE]

Init ==
  /\ units = {LibraryUnit}
  /\ undefined = [s \in StoryIds |-> IF s = 2 THEN <<"a">> ELSE <<>>]
  /\ nextId = 2
  /\ requests = 0
  /\ last = NoRequest
  /\ stories = StoryRows
  /\ proc = [p \in Procs |-> Idle]

\* NameMissing with the test left out
NameMissingNever(name) == FALSE

\* `if not name:` of add_unit, `if not new_name:` of edit_unit
NameMissing(name) == name = ""

\* EditedUnit without `unit.name = new_name`
EditedUnitNameKept(unit, new_name, features) ==
  [unit EXCEPT !.features = [features EXCEPT !["name"] = new_name]]

\* the unit object of edit_unit after features['name'] = new_name,
\* unit.features = features, unit.name = new_name
EditedUnit(unit, new_name, features) ==
  [unit EXCEPT !.name = new_name, !.features = [features EXCEPT !["name"] = new_name]]

\* DuplicateOnCreate with the look-up left out
DuplicateOnCreateSkipped(U, sid, name) == FALSE

\* the duplicate-name check of add_unit and add_existing_unit
DuplicateOnCreate(U, sid, name) == get_unit_by_name(U, sid, name) # {}

\* the duplicate-name check of edit_unit: existing_unit and existing_unit.id != unit.id
DuplicateOnRename(U, sid, new_name, unit) ==
  \E e \in get_unit_by_name(U, sid, new_name) : e.id # unit.id

\* POST /story/<story_id>/add_unit/<unit_type>, action save_unit
add_unit(sid, t, form) ==
  IF StoryDenied(sid) \/ t \notin UnitTypes
  THEN /\ last' = Turned("add_unit", sid)
       /\ UNCHANGED <<units, undefined, nextId>>
  ELSE \E pfs \in {process_form_submission(form, t, sid, units, undefined[sid])} :
       LET name == Strip(pfs.features["name"])
           errors == NameMissing(name) \/ DuplicateOnCreate(units, sid, name)
           unit == [id |-> nextId, story_id |-> sid, unit_type |-> t, name |-> name,
                    features |-> [pfs.features EXCEPT !["name"] = name]]
       IN IF errors
          THEN /\ undefined' = [undefined EXCEPT ![sid] = pfs.undefined_names]
               /\ last' = [Ended("add_unit", sid,
                                 IF NameMissing(name) THEN "name_required" ELSE "duplicate")
                             EXCEPT !.name = name, !.typed = form.name]
               /\ UNCHANGED <<units, nextId>>
          ELSE /\ \E rec \in {update_references_with_new_unit(
                                unit, unit.name, units \cup {unit}, pfs.undefined_names)} :
                    /\ units' = rec.units
                    /\ undefined' = [undefined EXCEPT ![sid] = rec.undefined_names]
                    /\ last' = [op |-> "add_unit", story_id |-> sid, outcome |-> "saved",
                                id |-> unit.id, name |-> name, old_name |-> name,
                                updated |-> rec.updated,
                                waiting |-> name \in SeqToSet(undefined[sid]),
                                typed |-> form.name, unit |-> unit]
               /\ nextId' = nextId + 1

\* POST /story/<story_id>/edit_unit/<unit_name>, action save_unit
edit_unit(sid, unit_name, form) ==
  IF StoryDenied(sid) \/ get_unit_by_name(units, sid, unit_name) = {}
  THEN /\ last' = Turned("edit_unit", sid)
       /\ UNCHANGED <<units, undefined, nextId>>
  ELSE \E unit \in get_unit_by_name(units, sid, unit_name) :
       \E pfs \in {process_form_submission(form, unit.unit_type, sid, units,
                                           undefined[sid])} :
       LET new_name == Strip(pfs.features["name"])
           errors == NameMissing(new_name) \/ DuplicateOnRename(units, sid, new_name, unit)
           edited == EditedUnit(unit, new_name, pfs.features)
       IN IF errors
          THEN /\ undefined' = [undefined EXCEPT ![sid] = pfs.undefined_names]
               /\ last' = [Ended("edit_unit", sid,
                                 IF NameMissing(new_name) THEN "name_required"
                                 ELSE "duplicate")
                             EXCEPT !.id = unit.id, !.name = new_name,
                                    !.old_name = unit.name, !.typed = form.name]
               /\ UNCHANGED <<units, nextId>>
          ELSE /\ \E rec \in {update_references_with_new_unit(
                                edited, unit.name, (units \ {unit}) \cup {edited},
                                pfs.undefined_names)} :
                    /\ units' = rec.units
                    /\ undefined' = [undefined EXCEPT ![sid] = rec.undefined_names]
                    /\ last' = [op |-> "edit_unit", story_id |-> sid, outcome |-> "saved",
                                id |-> unit.id, name |-> new_name, old_name |-> unit.name,
                                updated |-> rec.updated,
                                waiting |-> new_name \in SeqToSet(undefined[sid]),
                                typed |-> form.name, unit |-> edited]
               /\ UNCHANGED nextId

\* delete_unit_from_story that also takes the unit's name out of the lists of
\* the other units of its story
delete_unit_from_storyCascading(U, unit) ==
  {[o EXCEPT !.features =
      [k \in DOMAIN o.features |->
         IF k \in ListKeys(o.unit_type)
         THEN SelectSeq(o.features[k], LAMBDA v : v # unit.name)
         ELSE o.features[k]]] :
     o \in {x \in U : x.id # unit.id /\ x.story_id = unit.story_id}}
  \cup {x \in U : x.story_id # unit.story_id}

\* delete_unit_from_story: DELETE FROM unit WHERE id = ?
delete_unit_from_story(U, unit) == {x \in U : x.id # unit.id}

\* GET /story/<story_id>/delete_unit/<unit_name>
delete_unit(sid, unit_name) ==
  IF StoryDenied(sid) \/ get_unit_by_name(units, sid, unit_name) = {}
  THEN /\ last' = Turned("delete_unit", sid)
       /\ UNCHANGED <<units, undefined, nextId>>
  ELSE \E unit \in get_unit_by_name(units, sid, unit_name) :
       /\ units' = delete_unit_from_story(units, unit)
       /\ last' = [Ended("delete_unit", sid, "deleted") EXCEPT
                     !.id = unit.id, !.name = unit.name]
       /\ UNCHANGED <<undefined, nextId>>

\* POST /add_existing_unit/<unit_id> with the story the session holds (0: none)
add_existing_unit(unit_id, action, sid) ==
  IF sid = 0
  THEN /\ last' = Ended("add_existing_unit", sid, "no_story")
       /\ UNCHANGED <<units, undefined, nextId>>
  ELSE IF StoryDenied(sid) \/ get_unit_by_id(units, unit_id) = {}
  THEN /\ last' = Turned("add_existing_unit", sid)
       /\ UNCHANGED <<units, undefined, nextId>>
  ELSE \E unit \in get_unit_by_id(units, unit_id) :
       IF action = "add"
       THEN IF DuplicateOnCreate(units, sid, Strip(unit.name))
            THEN /\ last' = Ended("add_existing_unit", sid, "duplicate")
                 /\ UNCHANGED <<units, undefined, nextId>>
            ELSE /\ units' = units \cup {[unit EXCEPT !.id = nextId, !.story_id = sid]}
                 /\ nextId' = nextId + 1
                 /\ last' = [Ended("add_existing_unit", sid, "added") EXCEPT
                               !.id = nextId, !.name = unit.name]
                 /\ UNCHANGED undefined
       ELSE /\ last' = Ended("add_existing_unit", sid,
                             IF action = "use_as_template" THEN "template" ELSE "invalid")
            /\ UNCHANGED <<units, undefined, nextId>>

AddUnit ==
  /\ requests < MaxRequests
  /\ requests' = requests + 1
  /\ UNCHANGED <<stories, proc>>
  /\ \E sid \in RequestStoryIds, t \in RequestUnitTypes :
       IF StoryDenied(sid) \/ t \notin UnitTypes
       THEN add_unit(sid, t, NoForm)
       ELSE \E form \in Forms(t) : add_unit(sid, t, form)

EditUnit ==
  /\ requests < MaxRequests
  /\ requests' = requests + 1
  /\ UNCHANGED <<stories, proc>>
  /\ \E sid \in RequestStoryIds, n \in Names :
       IF StoryDenied(sid) \/ get_unit_by_name(units, sid, n) = {}
       THEN edit_unit(sid, n, NoForm)
       ELSE \E u \in get_unit_by_name(units, sid, n) :
              \E form \in Forms(u.unit_type) : edit_unit(sid, n, form)

DeleteUnit ==
  /\ requests < MaxRequests
  /\ requests' = requests + 1
  /\ UNCHANGED <<stories, proc>>
  /\ \E sid \in RequestStoryIds, n \in Names : delete_unit(sid, n)

AddExistingUnit ==
  /\ requests < MaxRequests
  /\ requests' = requests + 1
  /\ UNCHANGED <<stories, proc>>
  /\ \E id \in 1..nextId, action \in {"add", "use_as_template", "other"},
        sid \in RequestStoryIds \cup {0} : add_existing_unit(id, action, sid)

Next == AddUnit \/ EditUnit \/ DeleteUnit \/ AddExistingUnit

Spec == Init /\ [][Next]_vars

\* ------------------------------------------------- requests, call by call
\* The handlers again, one action per call into the database, for two workers
\* that serve requests at the same time.  Between two calls of one worker the
\* other worker may run.

\* abort(404) or abort(403) for the user of the request
StoryDeniedTo(user, sid) == sid \notin StoryIds \/ StoryOwner[sid] # user

\* the save_unit forms sent while another request is in flight
ConcForms ==
  {f \in GroupForms :
     /\ f.name # ""
     /\ Len(f.sel["Who is part of the group?"]) <= 1
     /\ f.sel["Where did the group first meet?"] = <<>>
     /\ \A k \in DOMAIN f.new : f.new[k] = ""
     /\ \A k \in DOMAIN f.str : f.str[k] = ""}

\* update_story that keeps the names the row holds and adds the new ones
update_storyMerging(und, sid, undefined_names) ==
  [und EXCEPT ![sid] = AppendUndefined(undefined_names, und[sid], {})]

\* update_story: UPDATE story SET undefined_names = ? WHERE id = ?
update_story(und, sid, undefined_names) ==
  [und EXCEPT ![sid] = undefined_names]

\* update_unit: UPDATE unit SET name = ?, features = ? WHERE id = ?
update_unit(U, unit) ==
  {IF x.id = unit.id
   THEN [x EXCEPT !.name = unit.name, !.features = unit.features]
   ELSE x : x \in U}

\* add_unit_to_story: INSERT INTO unit, the row gets cursor.lastrowid
add_unit_to_story(U, sid, unit, id) ==
  U \cup {[unit EXCEPT !.id = id, !.story_id = sid]}

RECURSIVE InIdOrder(_)
\* the rows of a set in the order of their ids
InIdOrder(S) ==
  IF S = {} THEN <<>>
  ELSE LET first == CHOOSE x \in S : \A y \in S : x.id <= y.id
       IN <<first>> \o InIdOrder(S \ {first})

\* some other worker is between the first and the last call of its request
OthersInFlight(p) ==
  \E q \in Procs \ {p} : proc[q].pc \notin {"idle", "done", "error"}

\* worker p ends its request
Finish(p, outcome) ==
  proc' = [proc EXCEPT ![p].pc = "done", ![p].outcome = outcome]

\* get_story_by_id and the checks that follow it in each handler; edit_unit
\* and delete_unit then look the unit up by name, add_existing_unit by id
Begin(p) ==
  /\ proc[p].pc = "idle"
  /\ \E user \in Users, sid \in StoryIds,
        op \in {"add_unit", "edit_unit", "delete_unit", "add_existing_unit"} :
       LET request == [Idle EXCEPT !.op = op, !.user = user, !.story_id = sid,
                                   !.undefined_names = undefined[sid],
                                   !.overlap = OthersInFlight(p)]
           seen == [q \in Procs |->
                      IF q # p /\ proc[q].pc \notin {"idle", "done", "error"}
                      THEN [proc[q] EXCEPT !.overlap = TRUE]
                      ELSE proc[q]]
       IN IF StoryDeniedTo(user, sid)
          THEN proc' = [proc EXCEPT ![p] = [Idle EXCEPT !.pc = "done", !.op = op,
                                                         !.user = user,
                                                         !.outcome = "denied"]]
          ELSE IF op = "add_unit"
          THEN \E form \in ConcForms :
                 proc' = [seen EXCEPT ![p] = [request EXCEPT !.pc = "form",
                                                             !.form = form]]
          ELSE IF op = "edit_unit"
          THEN \E unit \in get_units_by_story_id(units, sid), form \in ConcForms :
                 proc' = [seen EXCEPT ![p] = [request EXCEPT !.pc = "form",
                                                             !.form = form,
                                                             !.unit = unit]]
          ELSE IF op = "delete_unit"
          THEN \E unit \in get_units_by_story_id(units, sid) :
                 proc' = [seen EXCEPT ![p] = [request EXCEPT !.pc = "delete",
                                                             !.unit = unit]]
          ELSE \E unit \in units :
                 proc' = [seen EXCEPT ![p] = [request EXCEPT !.pc = "check_copy",
                                                             !.unit = unit]]
  /\ UNCHANGED <<units, undefined, nextId>>

\* process_form_submission on the story object the handler loaded: the
\* look-ups of the names and the update_story at its end
SubmitForm(p) ==
  /\ proc[p].pc = "form"
  /\ \E pfs \in {process_form_submission(proc[p].form, "Group", proc[p].story_id,
                                          units, proc[p].undefined_names)} :
       /\ undefined' = update_story(undefined, proc[p].story_id, pfs.undefined_names)
       /\ proc' = [proc EXCEPT
                     ![p].pc = "validate",
                     ![p].undefined_names = pfs.undefined_names,
                     ![p].old_name = proc[p].unit.name,
                     ![p].unit = [id |-> proc[p].unit.id, story_id |-> proc[p].story_id,
                                  unit_type |-> "Group",
                                  name |-> Strip(pfs.features["name"]),
                                  features |-> pfs.features]]
  /\ UNCHANGED <<units, nextId>>

\* the name checks of add_unit and edit_unit with their get_unit_by_name
Validate(p) ==
  /\ proc[p].pc = "validate"
  /\ LET unit == proc[p].unit
         duplicate ==
           IF proc[p].op = "add_unit"
           THEN DuplicateOnCreate(units, proc[p].story_id, unit.name)
           ELSE DuplicateOnRename(units, proc[p].story_id, unit.name, unit)
     IN IF NameMissing(unit.name) THEN Finish(p, "name_required")
        ELSE IF duplicate THEN Finish(p, "duplicate")
        ELSE proc' = [proc EXCEPT ![p].pc =
                        IF proc[p].op = "add_unit" THEN "insert" ELSE "update"]
  /\ UNCHANGED <<units, undefined, nextId>>

\* add_unit_to_story of add_unit; update_references_with_new_unit is called
\* next, with old_name = unit.name
Insert(p) ==
  /\ proc[p].pc = "insert"
  /\ units' = add_unit_to_story(units, proc[p].story_id, proc[p].unit, nextId)
  /\ nextId' = nextId + 1
  /\ proc' = [proc EXCEPT ![p].pc = "discover",
                          ![p].unit = [proc[p].unit EXCEPT !.id = nextId],
                          ![p].old_name = proc[p].unit.name,
                          ![p].und0 = undefined[proc[p].story_id],
                          ![p].units0 = units']
  /\ UNCHANGED undefined

\* update_unit(unit) of edit_unit; update_references_with_new_unit is called
\* next, with the name the unit had
UpdateUnit(p) ==
  /\ proc[p].pc = "update"
  /\ units' = update_unit(units, proc[p].unit)
  /\ proc' = [proc EXCEPT ![p].pc = "discover",
                          ![p].und0 = undefined[proc[p].story_id],
                          ![p].units0 = units']
  /\ UNCHANGED <<undefined, nextId>>

\* the first loop of update_references_with_new_unit and its update_story
Discover(p) ==
  /\ proc[p].pc = "discover"
  /\ LET unit == proc[p].unit
         discovered ==
           AppendUndefined(ListValues(unit.features, feature_schema(unit.unit_type), 1),
                           proc[p].undefined_names, UnitNames(units, proc[p].story_id))
     IN /\ undefined' = update_story(undefined, proc[p].story_id, discovered)
        /\ proc' = [proc EXCEPT
                      ![p].undefined_names = discovered,
                      ![p].pc = IF unit.name \in SeqToSet(discovered)
                                THEN "remove" ELSE "read_units"]
  /\ UNCHANGED <<units, nextId>>

\* story.undefined_names.remove(unit.name) and its update_story
Remove(p) ==
  /\ proc[p].pc = "remove"
  /\ LET removed == RemoveFirst(proc[p].undefined_names, proc[p].unit.name)
     IN /\ undefined' = update_story(undefined, proc[p].story_id, removed)
        /\ proc' = [proc EXCEPT ![p].undefined_names = removed,
                                ![p].pc = "read_units"]
  /\ UNCHANGED <<units, nextId>>

\* get_units_by_story_id of update_references_with_new_unit and the loop over
\* the rows it returned: the rewritten rows wait for their update_unit
ReadUnits(p) ==
  /\ proc[p].pc = "read_units"
  /\ LET unit == proc[p].unit
         rows == get_units_by_story_id(units, proc[p].story_id)
         names == {o.name : o \in rows}
         written == {o \in rows : o.id # unit.id
                                    /\ UnitUpdated(o, unit, proc[p].old_name, names)}
         pending == InIdOrder({RewrittenUnit(o, unit, proc[p].old_name, names) :
                                 o \in written})
     IN IF pending = <<>>
        THEN Finish(p, "saved")
        ELSE proc' = [proc EXCEPT ![p].pc = "write", ![p].pending = pending]
  /\ UNCHANGED <<units, undefined, nextId>>

\* update_unit(other_unit) for the next rewritten row
WriteUnit(p) ==
  /\ proc[p].pc = "write"
  /\ units' = update_unit(units, Head(proc[p].pending))
  /\ proc' = [proc EXCEPT
                ![p].pending = Tail(proc[p].pending),
                ![p].pc = IF Tail(proc[p].pending) = <<>> THEN "done" ELSE "write",
                ![p].outcome = IF Tail(proc[p].pending) = <<>> THEN "saved" ELSE "none"]
  /\ UNCHANGED <<undefined, nextId>>

\* a write of update_references_with_new_unit raises: update_story or
\* update_unit fails, the exception leaves the handler
FailWrite(p) ==
  /\ proc[p].pc \in {"discover", "remove", "write"}
  /\ proc' = [proc EXCEPT ![p].pc = "error", ![p].outcome = "error"]
  /\ UNCHANGED <<units, undefined, nextId>>

\* delete_unit_from_story of delete_unit
Delete(p) ==
  /\ proc[p].pc = "delete"
  /\ units' = delete_unit_from_story(units, proc[p].unit)
  /\ Finish(p, "deleted")
  /\ UNCHANGED <<undefined, nextId>>

\* the get_unit_by_name of add_existing_unit
CheckCopy(p) ==
  /\ proc[p].pc = "check_copy"
  /\ IF DuplicateOnCreate(units, proc[p].story_id, Strip(proc[p].unit.name))
     THEN Finish(p, "duplicate")
     ELSE proc' = [proc EXCEPT ![p].pc = "insert_copy"]
  /\ UNCHANGED <<units, undefined, nextId>>

\* the add_unit_to_story of add_existing_unit
InsertCopy(p) ==
  /\ proc[p].pc = "insert_copy"
  /\ units' = add_unit_to_story(units, proc[p].story_id, proc[p].unit, nextId)
  /\ nextId' = nextId + 1
  /\ Finish(p, "added")
  /\ UNCHANGED undefined

BeginRequest == \E p \in Procs : Begin(p) /\ UNCHANGED <<requests, last, stories>>
SubmitFormCall == \E p \in Procs : SubmitForm(p) /\ UNCHANGED <<requests, last, stories>>
ValidateCall == \E p \in Procs : Validate(p) /\ UNCHANGED <<requests, last, stories>>
InsertCall == \E p \in Procs : Insert(p) /\ UNCHANGED <<requests, last, stories>>
UpdateUnitCall == \E p \in Procs : UpdateUnit(p) /\ UNCHANGED <<requests, last, stories>>
DiscoverCall == \E p \in Procs : Discover(p) /\ UNCHANGED <<requests, last, stories>>
RemoveCall == \E p \in Procs : Remove(p) /\ UNCHANGED <<requests, last, stories>>
ReadUnitsCall == \E p \in Procs : ReadUnits(p) /\ UNCHANGED <<requests, last, stories>>
WriteUnitCall == \E p \in Procs : WriteUnit(p) /\ UNCHANGED <<requests, last, stories>>
FailWriteCall == \E p \in Procs : FailWrite(p) /\ UNCHANGED <<requests, last, stories>>
DeleteCall == \E p \in Procs : Delete(p) /\ UNCHANGED <<requests, last, stories>>
CheckCopyCall == \E p \in Procs : CheckCopy(p) /\ UNCHANGED <<requests, last, stories>>
InsertCopyCall == \E p \in Procs : InsertCopy(p) /\ UNCHANGED <<requests, last, stories>>

NextConc ==
  \/ BeginRequest \/ SubmitFormCall \/ ValidateCall \/ InsertCall \/ UpdateUnitCall
  \/ DiscoverCall \/ RemoveCall \/ ReadUnitsCall \/ WriteUnitCall \/ FailWriteCall
  \/ DeleteCall \/ CheckCopyCall \/ InsertCopyCall

SpecConc == Init /\ [][NextConc]_vars

\* ---------------------------------------------------------------- fill_features
\* form_data of a fill_features submission, request.form.to_dict(flat=False),
\* as the sequence of its items: an item is [key, list, v], a list value with
\* its entries in v, or a string value with the string as the one entry of v
Item(key, list, v) == [key |-> key, list |-> list, v |-> v]

\* the keys of the "<feature>_new" text fields
NewKeys == {"Who is part of the group?_new", "Where did the group first meet?_new"}

\* the fill_features forms a browser can send: the text fields always, the
\* multi-select only when something is selected
FillForms ==
  {<<Item("name", TRUE, <<n>>), Item("unit_description", TRUE, <<d>>)>>
     \o (IF sel = <<>> THEN <<>> ELSE <<Item("Who is part of the group?", TRUE, sel)>>)
     \o <<Item("Who is part of the group?_new", TRUE, <<"">>),
          Item("Reason for solidarity", TRUE, <<r>>)>> :
     n \in {"", "b"}, d \in {"", " a "}, sel \in {<<>>, <<"a">>, <<"a", "c">>},
     r \in {"", "b"}}

\* what the model answers for one key: nothing, a string, or a list
Suggestions(key) ==
  IF key = "Who is part of the group?"
  THEN {<<>>, <<Item(key, TRUE, <<"b">>)>>, <<Item(key, FALSE, <<"b">>)>>}
  ELSE IF key = "Reason for solidarity"
  THEN {<<>>, <<Item(key, FALSE, <<"c">>)>>, <<Item(key, TRUE, <<"c">>)>>,
        <<Item(key, TRUE, <<"c", "a">>)>>, <<Item(key, TRUE, <<>>)>>}
  ELSE {<<>>, <<Item(key, FALSE, <<"c">>)>>}

\* what call_openai and json.loads make of the request: the call raises, the
\* text is no JSON, the JSON is no object, or it is an object with these items
FillResponses ==
  {[kind |-> k, values |-> <<>>] : k \in {"call_error", "not_json", "not_object"}}
  \cup {[kind |-> "object", values |-> m \o r \o b] :
          m \in Suggestions("Who is part of the group?"),
          r \in Suggestions("Reason for solidarity"),
          b \in Suggestions("Bogus")}

\* form_data.get(key): the items of that key (at most one)
FormItems(form_data, key) ==
  {form_data[i] : i \in {j \in 1..Len(form_data) : form_data[j].key = key}}

\* form_data.get(key, [''])[0].strip() of a submitted form
FormText(form_data, key) ==
  IF FormItems(form_data, key) = {} THEN ""
  ELSE Strip((CHOOSE e \in FormItems(form_data, key) : TRUE).v[1])

\* form_data[key] = value
SetItem(form_data, item) ==
  IF FormItems(form_data, item.key) = {} THEN Append(form_data, item)
  ELSE [i \in 1..Len(form_data) |->
          IF form_data[i].key = item.key THEN item ELSE form_data[i]]

RECURSIVE MergeSuggestions(_, _, _)
\* for key, value in feature_values.items(): if key in feature_schema: ...
\* form_data[key] = value
MergeSuggestions(form_data, values, t) ==
  IF values = <<>> THEN form_data
  ELSE IF Head(values).key \in SchemaKeys(t)
  THEN MergeSuggestions(SetItem(form_data, Head(values)), Tail(values), t)
  ELSE MergeSuggestions(form_data, Tail(values), t)

\* the condition of the second loop of fill_features
TakesFirst(item, t) ==
  \/ /\ \/ item.key \in SchemaKeys(t) \ ListKeys(t)
        \/ item.key \in NewKeys
     /\ item.list
  \/ item.key = "unit_description"

RECURSIVE Normalise(_, _, _)
\* for key, value in form_data.items(): ... form_data[key] = value[0], from
\* item i on: ValueError for more than one entry, IndexError for none
Normalise(form_data, i, t) ==
  IF i > Len(form_data) THEN [raised |-> FALSE, form_data |-> form_data]
  ELSE IF TakesFirst(form_data[i], t)
  THEN IF Len(form_data[i].v) # 1
       THEN [raised |-> TRUE, form_data |-> form_data]
       ELSE Normalise(
              [form_data EXCEPT ![i] = Item(form_data[i].key, FALSE, form_data[i].v)],
              i + 1, t)
  ELSE Normalise(form_data, i + 1, t)

\* the fill_features branch of add_unit and edit_unit: the errors and the
\* form_data that render_template gets
fill_features(form_data, response, t) ==
  LET description ==
        IF FormText(form_data, "unit_description") = ""
        THEN FormText(form_data, "name")
        ELSE FormText(form_data, "unit_description")
  IN IF description = ""
     THEN [outcome |-> "no_description", form_data |-> form_data]
     ELSE IF response.kind # "object"
     THEN [outcome |-> response.kind, form_data |-> form_data]
     ELSE LET done == Normalise(MergeSuggestions(form_data, response.values, t), 1, t)
          IN [outcome |-> IF done.raised THEN "error" ELSE "filled",
              form_data |-> done.form_data]

\* the record of a fill_features request: what was submitted, what the model
\* answered, and the form_data shown
FillRequest(sid, submitted, response, filled) ==
  [submitted |-> submitted, response |-> response, form_data |-> filled.form_data]
  @@ Ended("fill_features", sid, filled.outcome)

\* add_unit_fill that stores the description as an undefined name
add_unit_fillStoring(sid, t, form_data, response) ==
  IF StoryDenied(sid) \/ t \notin UnitTypes
  THEN /\ last' = Turned("fill_features", sid)
       /\ UNCHANGED <<units, undefined, nextId>>
  ELSE /\ last' = FillRequest(sid, form_data, response,
                              fill_features(form_data, response, t))
       /\ undefined' = [undefined EXCEPT
                          ![sid] = AppendUndefined(<<FormText(form_data, "name")>>,
                                                   undefined[sid], UnitNames(units, sid))]
       /\ UNCHANGED <<units, nextId>>

\* POST /story/<story_id>/add_unit/<unit_type>, action fill_features
add_unit_fill(sid, t, form_data, response) ==
  IF StoryDenied(sid) \/ t \notin UnitTypes
  THEN /\ last' = Turned("fill_features", sid)
       /\ UNCHANGED <<units, undefined, nextId>>
  ELSE /\ last' = FillRequest(sid, form_data, response,
                              fill_features(form_data, response, t))
       /\ UNCHANGED <<units, undefined, nextId>>

\* POST /story/<story_id>/edit_unit/<unit_name>, action fill_features
edit_unit_fill(sid, unit_name, form_data, response) ==
  IF StoryDenied(sid) \/ get_unit_by_name(units, sid, unit_name) = {}
  THEN /\ last' = Turned("fill_features", sid)
       /\ UNCHANGED <<units, undefined, nextId>>
  ELSE \E unit \in get_unit_by_name(units, sid, unit_name) :
       /\ last' = FillRequest(sid, form_data, response,
                              fill_features(form_data, response, unit.unit_type))
       /\ UNCHANGED <<units, undefined, nextId>>

FillAdd ==
  /\ requests < MaxFillRequests
  /\ requests' = requests + 1
  /\ UNCHANGED <<stories, proc>>
  /\ \E sid \in RequestStoryIds, t \in RequestUnitTypes :
       IF StoryDenied(sid) \/ t \notin UnitTypes
       THEN add_unit_fill(sid, t, <<>>, [kind |-> "call_error", values |-> <<>>])
       ELSE \E form_data \in FillForms, response \in FillResponses :
              add_unit_fill(sid, t, form_data, response)

FillEdit ==
  /\ requests < MaxFillRequests
  /\ requests' = requests + 1
  /\ UNCHANGED <<stories, proc>>
  /\ \E sid \in RequestStoryIds, n \in Names :
       IF StoryDenied(sid) \/ get_unit_by_name(units, sid, n) = {}
       THEN edit_unit_fill(sid, n, <<>>, [kind |-> "call_error", values |-> <<>>])
       ELSE \E form_data \in FillForms, response \in FillResponses :
              edit_unit_fill(sid, n, form_data, response)

\* a library unit is copied into the story before or between the fills
FillCopy ==
  /\ requests < MaxFillRequests
  /\ requests' = requests + 1
  /\ UNCHANGED <<stories, proc>>
  /\ \E id \in 1..nextId, sid \in RequestStoryIds : add_existing_unit(id, "add", sid)

NextFill == FillAdd \/ FillEdit \/ FillCopy

SpecFill == Init /\ [][NextFill]_vars

\* ---------------------------------------------------------------- stories
\* RequiredMissing without the test of main_challenge
RequiredMissingChallengeFree(story_name, setting_and_style, main_challenge) ==
  story_name = "" \/ setting_and_style = ""

\* the three `if not ...` tests of create_story_route on the stripped fields
RequiredMissing(story_name, setting_and_style, main_challenge) ==
  story_name = "" \/ setting_and_style = "" \/ main_challenge = ""

\* get_stories_by_user_email
get_stories_by_user_email(S, user_email) == {r \in S : r.user_email = user_email}

\* DuplicateStoryName with the look-up left out
DuplicateStoryNameSkipped(S, user_email, story_name) == FALSE

\* any(s.name == story_name for s in user_stories)
DuplicateStoryName(S, user_email, story_name) ==
  \E r \in get_stories_by_user_email(S, user_email) : r.name = story_name

\* cursor.lastrowid of the INSERT INTO story
NextStoryId(S) == IF S = {} THEN 1 ELSE (CHOOSE i \in {r.id : r \in S} : \A r \in S : r.id <= i) + 1

\* the record of a create-story request: who sent it, what was typed, how it ended
StoryRequest(user, story_name, setting_and_style, main_challenge, outcome, id) ==
  [user |-> user, story_name |-> story_name, setting_and_style |-> setting_and_style,
   main_challenge |-> main_challenge]
  @@ [Ended("create_story", id, outcome) EXCEPT !.id = id]

\* POST /create_story as current_user = user
create_story_route(user, story_name_in, setting_in, challenge_in) ==
  LET story_name == Strip(story_name_in)
      setting_and_style == Strip(setting_in)
      main_challenge == Strip(challenge_in)
      id == NextStoryId(stories)
  IN IF RequiredMissing(story_name, setting_and_style, main_challenge)
     THEN /\ last' = StoryRequest(user, story_name_in, setting_in, challenge_in,
                                  "missing_field", 0)
          /\ UNCHANGED <<stories, undefined>>
     ELSE IF DuplicateStoryName(stories, user, story_name)
     THEN /\ last' = StoryRequest(user, story_name_in, setting_in, challenge_in,
                                  "duplicate", 0)
          /\ UNCHANGED <<stories, undefined>>
     ELSE /\ stories' = stories \cup
                          {[id |-> id, name |-> story_name, user_email |-> user,
                            setting_and_style |-> setting_and_style,
                            main_challenge |-> main_challenge]}
          /\ undefined' = (id :> <<>>) @@ undefined
          /\ last' = StoryRequest(user, story_name_in, setting_in, challenge_in,
                                  "created", id)

CreateStory ==
  /\ requests < MaxStoryRequests
  /\ requests' = requests + 1
  /\ \E user \in Users, n \in StoryNameInputs, st \in SettingInputs,
        ch \in ChallengeInputs : create_story_route(user, n, st, ch)
  /\ UNCHANGED <<units, nextId, proc>>

NextStories == CreateStory

SpecStories == Init /\ [][NextStories]_vars

\* ---------------------------------------------------------------- properties
\* the names that occur in a list-valued feature of some unit of the story
ReferencedNames(U, sid) ==
  UNION {SeqToSet(ListValues(u.features, feature_schema(u.unit_type), 1)) :
           u \in get_units_by_story_id(U, sid)}

\* update_references_with_new_unit has just returned (the request was saved)
Reconciled == last.outcome = "saved"

\* C1: immediately after update_references_with_new_unit, undefined_names is
\* exactly the set of names that occur in a list-valued feature of some unit of
\* the story and name no unit of the story.
C1_UndefinedNamesExact ==
  Reconciled =>
    SeqToSet(undefined[last.story_id])
      = ReferencedNames(units, last.story_id) \ UnitNames(units, last.story_id)

\* C2: after update_references_with_new_unit returns, every name in a
\* list-valued feature of a unit of the story names a unit of the story or is
\* in undefined_names.
C2_ReferencesCovered ==
  Reconciled =>
    ReferencedNames(units, last.story_id)
      \subseteq UnitNames(units, last.story_id) \cup SeqToSet(undefined[last.story_id])

\* C3: after update_references_with_new_unit returns, no name of a unit of the
\* story is in undefined_names.
C3_NoUnitNameUndefined ==
  Reconciled =>
    UnitNames(units, last.story_id) \cap SeqToSet(undefined[last.story_id]) = {}

\* the unit row with the given id
UnitById(U, id) == CHOOSE u \in U : u.id = id

\* the names in the list-valued features of one unit
OwnReferences(u) == SeqToSet(ListValues(u.features, feature_schema(u.unit_type), 1))

\* a step in which edit_unit saved a rename of a unit whose old name is held
\* in a list of another unit of the story
RenameStep ==
  /\ last'.op = "edit_unit"
  /\ last'.outcome = "saved"
  /\ last'.old_name # last'.name
  /\ \E A \in get_units_by_story_id(units, last'.story_id) :
       A.id # last'.id /\ last'.old_name \in OwnReferences(A)

\* in a rename step, every list of every other unit holds the new name where it
\* held the old one and holds the old one nowhere
RenamePropagated ==
  \A A \in get_units_by_story_id(units, last'.story_id) :
     A.id # last'.id =>
       \E A2 \in units' :
          /\ A2.id = A.id
          /\ \A k \in ListKeys(A.unit_type) :
               /\ Len(A2.features[k]) = Len(A.features[k])
               /\ \A i \in 1..Len(A.features[k]) :
                    A.features[k][i] = last'.old_name => A2.features[k][i] = last'.name
               /\ last'.old_name \notin SeqToSet(A2.features[k])

\* the old name is in undefined_names after the step though it was not before
OldNameAdded ==
  /\ last'.old_name \in SeqToSet(undefined'[last'.story_id])
  /\ last'.old_name \notin SeqToSet(undefined[last'.story_id])

\* C4 as claimed: when edit_unit renames B from old to new, every list of
\* another unit A holds new where it held old and old nowhere, and old has not
\* been added to undefined_names.
C4_RenamePropagation ==
  [][RenameStep => (RenamePropagated /\ ~OldNameAdded)]_vars

\* C4 as amended: when edit_unit renames B from old to new, every list of
\* another unit A holds new where it held old and old nowhere, and old has not
\* been added to undefined_names unless a list of B itself, as saved, holds old.
C4_RenamePropagationAmended ==
  [][RenameStep =>
       /\ RenamePropagated
       /\ OldNameAdded => last'.old_name \in OwnReferences(UnitById(units', last'.id))]_vars

\* a rename was saved and rewrote a two-entry list of another unit, which now
\* holds the new name and not the old one
C4_Witness ==
  /\ last.op = "edit_unit" /\ last.outcome = "saved" /\ last.old_name # last.name
  /\ \E A \in get_units_by_story_id(units, last.story_id) :
       /\ A.id \in last.updated
       /\ A.features["Reason for solidarity"] = ""
       /\ A.features["Where did the group first meet?"] = <<>>
       /\ Len(A.features["Who is part of the group?"]) = 2
       /\ last.name \in SeqToSet(A.features["Who is part of the group?"])

\* C5: creating a unit with a list entry n that names no unit puts n into
\* undefined_names, and creating a unit named n takes n out of undefined_names.
C5_ForwardReference ==
  (last.op = "add_unit" /\ last.outcome = "saved") =>
    /\ \A n \in OwnReferences(UnitById(units, last.id)) :
         n \notin UnitNames(units, last.story_id)
           => n \in SeqToSet(undefined[last.story_id])
    /\ last.name \notin SeqToSet(undefined[last.story_id])

\* a unit was created whose name was an undefined name before the request and
\* which itself refers to a name that no unit has
C5_Witness ==
  /\ last.op = "add_unit" /\ last.outcome = "saved" /\ last.waiting
  /\ \E n \in OwnReferences(UnitById(units, last.id)) :
       n \notin UnitNames(units, last.story_id)

\* C6: an add_unit save whose name is the name of a unit of the story is
\* rejected and leaves the units and undefined_names of the story as they were.
C6_CreateDuplicateRejected ==
  [][(last'.op = "add_unit" /\ last'.outcome = "duplicate")
       => (units' = units /\ undefined' = undefined)]_vars

\* C7: an edit_unit save whose new name is the name of another unit of the story
\* is rejected without changing a unit or undefined_names, and a save that keeps
\* the unit's own name is not rejected as a duplicate.
C7_RenameDuplicateRejected ==
  [][(last'.op = "edit_unit" /\ last'.outcome = "duplicate")
       => /\ units' = units /\ undefined' = undefined
          /\ last'.name # last'.old_name]_vars

\* C8: a second update_references_with_new_unit with the same unit, story and
\* old_name changes neither undefined_names nor any unit.
C8_ReconcileIdempotent ==
  Reconciled =>
    LET again == update_references_with_new_unit(
                   UnitById(units, last.id), last.old_name, units,
                   undefined[last.story_id])
    IN /\ again.units = units
       /\ again.undefined_names = undefined[last.story_id]

\* a rename was reconciled that rewrote another unit and left undefined names
C8_Witness ==
  /\ Reconciled
  /\ last.old_name # last.name
  /\ last.updated # {}
  /\ undefined[last.story_id] # <<>>

\* a step in which add_unit created a unit whose name was in undefined_names
\* and none of whose list entries is a new undefined name
ResolvingStep ==
  /\ last'.op = "add_unit"
  /\ last'.outcome = "saved"
  /\ last'.name \in SeqToSet(undefined[last'.story_id])
  /\ \A n \in OwnReferences(UnitById(units', last'.id)) :
       \/ n \in UnitNames(units', last'.story_id)
       \/ n \in SeqToSet(undefined[last'.story_id])

\* C9: creating a unit whose name n is in undefined_names and which brings no
\* new undefined name removes n from undefined_names and changes no other unit.
C9_ResolutionKeepsReferrers ==
  [][ResolvingStep =>
       /\ undefined'[last'.story_id]
            = SelectSeq(undefined[last'.story_id], LAMBDA x : x # last'.name)
       /\ \A u \in units : u \in units']_vars

\* a unit was created whose name was the only undefined name, with a referrer
\* that the reconcile wrote
C9_Witness ==
  /\ last.op = "add_unit" /\ last.outcome = "saved" /\ last.waiting
  /\ last.updated # {}
  /\ undefined[last.story_id] = <<>>
  /\ \E A \in get_units_by_story_id(units, last.story_id) :
       A.id \in last.updated /\ last.name \in OwnReferences(A)

\* C10: no two units of a story have the same name.
C10_UniqueUnitNames ==
  \A u1, u2 \in units :
     (u1.story_id = u2.story_id /\ u1.name = u2.name) => u1.id = u2.id

\* a story holds two units and has just turned away a duplicate name
C10_Witness ==
  /\ last.outcome = "duplicate"
  /\ Cardinality(get_units_by_story_id(units, last.story_id)) >= 2

\* C11: deleting a unit removes that unit and nothing else: undefined_names is
\* what it was (the deleted name is not put back, also when another unit holds
\* it in a list) and every other unit keeps its features.
C11_DeleteRemovesOnlyUnit ==
  [][(last'.op = "delete_unit" /\ last'.outcome = "deleted")
       => /\ undefined' = undefined
          /\ units' = {u \in units : u.id # last'.id}
          /\ \E u \in units : u.id = last'.id /\ u.name = last'.name]_vars

\* a unit was deleted whose name another unit of the story still holds in a
\* list, and the name is not in undefined_names
C11_Witness ==
  /\ last.op = "delete_unit" /\ last.outcome = "deleted"
  /\ last.name \in ReferencedNames(units, last.story_id)
  /\ last.name \notin SeqToSet(undefined[last.story_id])

\* C12: the story row's undefined_names changes only in requests that reach
\* update_references_with_new_unit, that is in saved add_unit and edit_unit
\* requests.
C12_OnlyResolverMutates ==
  [][undefined' # undefined => last'.outcome = "saved"]_vars

\* a story the requesting user has no right to: missing or somebody else's
NotOwnStory(s) == s \notin StoryIds \/ StoryOwner[s] # CurrentUser

\* C19: a request on a story that does not exist or belongs to somebody else
\* ends in a not-found or access-denied outcome, and the units and the
\* undefined_names of such a story never change.
C19_OwnershipGuard ==
  [][/\ \A s \in StoryIds :
          NotOwnStory(s) =>
            /\ get_units_by_story_id(units', s) = get_units_by_story_id(units, s)
            /\ undefined'[s] = undefined[s]
     /\ last'.outcome \in {"denied", "not_found", "no_story"}
          => (units' = units /\ undefined' = undefined)
     /\ last'.outcome \notin {"denied", "not_found", "no_story"}
          => ~NotOwnStory(last'.story_id)]_vars

\* a request on somebody else's story, which holds a unit, was turned away
C19_Witness ==
  /\ last.outcome = "denied"
  /\ requests >= 2
  /\ \E s \in StoryIds : NotOwnStory(s) /\ get_units_by_story_id(units, s) # {}
  /\ \E s \in StoryIds : ~NotOwnStory(s) /\ get_units_by_story_id(units, s) # {}

\* C17: a create-story request with an empty name, setting_and_style or
\* main_challenge (after trimming) is rejected and persists no story; a request
\* that succeeds persists exactly one new story, whose undefined_names is empty.
C17_CreateStoryValidated ==
  [][last'.op = "create_story" =>
       IF \/ Strip(last'.story_name) = ""
          \/ Strip(last'.setting_and_style) = ""
          \/ Strip(last'.main_challenge) = ""
       THEN last'.outcome = "missing_field" /\ stories' = stories /\ undefined' = undefined
       ELSE last'.outcome = "created" =>
              /\ stories \subseteq stories'
              /\ Cardinality(stories' \ stories) = 1
              /\ \A r \in stories' \ stories :
                   /\ r.id = last'.id
                   /\ r.id \notin {o.id : o \in stories}
                   /\ r.id \notin DOMAIN undefined
                   /\ undefined'[r.id] = <<>>
              /\ \A i \in DOMAIN undefined : undefined'[i] = undefined[i]]_vars

\* the second request created a story, under a name that had to be trimmed
C17_Witness ==
  /\ last.op = "create_story" /\ last.outcome = "created"
  /\ last.story_name = " a "
  /\ Cardinality(stories) = Cardinality(StoryRows) + 1
  /\ requests >= 2

\* C18: no owner has two stories of the same name; a create-story request
\* whose name the owner already uses is rejected and persists nothing, and one
\* whose name only another owner uses is accepted.
C18_StoryNamesUniquePerOwner ==
  [][last'.op = "create_story" =>
       /\ \A r1, r2 \in stories' :
            (r1.user_email = r2.user_email /\ r1.name = r2.name) => r1.id = r2.id
       /\ last'.outcome # "missing_field" =>
            IF \E r \in stories :
                 r.user_email = last'.user /\ r.name = Strip(last'.story_name)
            THEN last'.outcome = "duplicate" /\ stories' = stories /\ undefined' = undefined
            ELSE last'.outcome = "created"]_vars

\* a user created a story under a name that another user's story has, and a
\* second create under that name by the same user was turned away
C18_Witness ==
  /\ last.op = "create_story" /\ last.outcome = "duplicate"
  /\ \E r1, r2 \in stories :
       /\ r1.name = r2.name /\ r1.user_email # r2.user_email
       /\ r1.name = Strip(last.story_name)
       /\ r1.id \notin StoryIds

\* the value the model suggested for key k is the value of k in form_data
Merged(form_data, item) ==
  \E e \in FormItems(form_data, item.key) : e.v = item.v

\* C15: a fill_features request either merges every suggested value whose key
\* is in the schema into the form_data shown, or, when it fails, merges none and
\* shows the form_data as submitted.
C15_FillAllOrNothing ==
  last.op = "fill_features" =>
    \/ /\ last.outcome = "filled"
       /\ \A i \in 1..Len(last.response.values) :
            last.response.values[i].key \in SchemaKeys("Group")
              => Merged(last.form_data, last.response.values[i])
    \/ /\ last.outcome # "filled"
       /\ last.form_data = last.submitted

\* C16: a fill_features request creates and updates no unit and leaves
\* undefined_names as it was, whether the generative call succeeds or fails.
C16_FillPersistsNothing ==
  [][last'.op = "fill_features"
       => (units' = units /\ undefined' = undefined /\ nextId' = nextId)]_vars

\* a fill on a story that holds a unit merged two suggestions
C16_Witness ==
  /\ last.op = "fill_features" /\ last.outcome = "filled"
  /\ Len(last.response.values) >= 2
  /\ get_units_by_story_id(units, last.story_id) # {}

\* worker p has just made a call that ends in update_story
WroteStory(p) ==
  /\ proc[p].pc \in {"form", "discover", "remove"}
  /\ proc'[p].pc \notin {proc[p].pc, "error"}

\* C13: the story row is written without a version check, the last write
\* wins: every update_story stores the undefined_names of the writer's own
\* story object, whatever the row held, so that an addition of another writer
\* can be lost.
C13_LastWriteWins ==
  [][\A p \in Procs :
       WroteStory(p) => undefined'[proc'[p].story_id] = proc'[p].undefined_names]_vars

\* two save requests on one story ran at the same time and both were saved;
\* one of them added a name to undefined_names that its unit holds in a list
\* and that no unit of the story has, and the story row does not hold it
C13_Witness ==
  /\ \A p \in Procs :
       /\ proc[p].pc = "done" /\ proc[p].outcome = "saved" /\ proc[p].overlap
       /\ proc[p].story_id = 1
  /\ \E p \in Procs :
       \E u \in get_unit_by_id(units, proc[p].unit.id) :
         \E n \in OwnReferences(u) :
            /\ n \in SeqToSet(proc[p].undefined_names)
            /\ n \notin UnitNames(units, 1)
            /\ n \notin SeqToSet(undefined[1])

\* C14: when a write of update_references_with_new_unit fails, nothing the
\* call wrote before remains: undefined_names and the units are what they
\* were when the call began.
C14_FailedReconcileLeavesNothing ==
  \A p \in Procs :
     (proc[p].pc = "error" /\ \A q \in Procs \ {p} : proc[q].pc = "idle")
       => /\ undefined[proc[p].story_id] = proc[p].und0
          /\ units = proc[p].units0

\* C20: the units and the undefined_names of a story change only in a call
\* of a request on that story, also when requests on different stories run at
\* the same time.
C20_StoriesDoNotInteract ==
  [][\A s \in StoryIds :
       (\/ get_units_by_story_id(units', s) # get_units_by_story_id(units, s)
        \/ undefined'[s] # undefined[s])
         => \E p \in Procs : proc'[p] # proc[p] /\ proc'[p].story_id = s]_vars

\* two requests on different stories ran at the same time; both were saved,
\* and one of them rewrote another unit of its story
C20_Witness ==
  /\ \A p \in Procs :
       proc[p].pc = "done" /\ proc[p].outcome = "saved" /\ proc[p].overlap
  /\ proc[1].story_id # proc[2].story_id
  /\ \E p \in Procs : proc[p].pending # <<>> \/ proc[p].old_name # proc[p].unit.name

\* a step in which a unit was saved and update_references_with_new_unit ran
SavedStep == last'.outcome = "saved"

\* C21: after update_references_with_new_unit with a non-empty old_name, every
\* string attribute of the schema of every other unit that held exactly
\* old_name holds unit.name, and every other string attribute is as it was.
C21_StringPropagation ==
  [][(SavedStep /\ last'.old_name # "") =>
       \A o \in get_units_by_story_id(units, last'.story_id) :
          o.id # last'.id =>
            \E o2 \in units' :
               /\ o2.id = o.id
               /\ \A k \in StrKeys(o.unit_type) :
                    o2.features[k] = IF o.features[k] = last'.old_name
                                     THEN last'.name
                                     ELSE o.features[k]]_vars

\* a rename was saved, and a string attribute of another unit that held the
\* old name now holds the new one
C21_Witness ==
  /\ last.op = "edit_unit" /\ last.outcome = "saved" /\ last.old_name # last.name
  /\ \E o \in get_units_by_story_id(units, last.story_id) :
       /\ o.id \in last.updated
       /\ o.features["Reason for solidarity"] = last.name
       /\ o.features["Who is part of the group?"] = <<>>

\* C22: also when two add_unit or edit_unit saves on one story run at the
\* same time, call by call, no two units of a story have the same name.
C22_UniqueUnitNamesInterleaved ==
  \A u1, u2 \in units :
     (u1.story_id = u2.story_id /\ u1.name = u2.name) => u1.id = u2.id

\* C23: a save_unit request whose name is empty or blank is rejected and
\* creates and changes no unit, and the name of every unit is a non-empty
\* trimmed string.
C23_NameRequired ==
  [][/\ \A u \in units' : u.name # "" /\ Strip(u.name) = u.name
     /\ (last'.op \in {"add_unit", "edit_unit"} /\ last'.typed \in {"", " "})
          => (last'.outcome \in {"name_required", "denied", "not_found"}
              /\ units' = units /\ nextId' = nextId)
     /\ last'.outcome = "name_required" => units' = units]_vars

\* an edit_unit save with a blank name was turned away in a story with a unit
C23_Witness ==
  /\ last.op = "edit_unit" /\ last.outcome = "name_required" /\ last.typed = " "
  /\ get_units_by_story_id(units, last.story_id) # {}

\* C24: undefined_names holds no name twice.
C24_UndefinedNamesNoDuplicate ==
  \A s \in DOMAIN undefined :
     \A i, j \in 1..Len(undefined[s]) : undefined[s][i] = undefined[s][j] => i = j

\* a saved unit holds a name twice in one list, the name has no unit and is
\* in undefined_names, and the unit's own name was taken out of the list
C24_Witness ==
  /\ Reconciled /\ last.waiting
  /\ \E n \in SeqToSet(undefined[last.story_id]) :
       UnitById(units, last.id).features["Who is part of the group?"] = <<n, n>>

\* C25: after update_references_with_new_unit returns, every name in a
\* list-valued attribute of the reconciled unit is the name of a unit of the
\* story or is in undefined_names.
C25_DiscoveryCoversOwnReferences ==
  Reconciled =>
    OwnReferences(UnitById(units, last.id))
      \subseteq UnitNames(units, last.story_id) \cup SeqToSet(undefined[last.story_id])

\* a rename was saved whose form still lists the old name, which the first
\* loop of update_references_with_new_unit put into undefined_names
C25_Witness ==
  /\ last.op = "edit_unit" /\ last.outcome = "saved" /\ last.old_name # last.name
  /\ last.old_name \in OwnReferences(UnitById(units, last.id))
  /\ last.old_name \in SeqToSet(undefined[last.story_id])
  /\ last.old_name \notin UnitNames(units, last.story_id)

\* the unit table update_references_with_new_unit was called on in a saved step
TableBeforeReconcile == {o \in units : o.id # last'.id} \cup {last'.unit}

\* C26: update_references_with_new_unit changes neither the name nor the
\* features of the reconciled unit, changes neither name nor type of another
\* unit, changes in other units only attribute values that held old_name, and
\* keeps the length and the order of every list it rewrites.
C26_ReconcileFrame ==
  [][SavedStep =>
       /\ {u \in units' : u.id = last'.id} = {last'.unit}
       /\ {u.id : u \in units'} = {u.id : u \in TableBeforeReconcile}
       /\ \A o \in units : o.id # last'.id =>
            \E o2 \in units' :
               /\ o2.id = o.id /\ o2.name = o.name /\ o2.unit_type = o.unit_type
               /\ o2.story_id = o.story_id
               /\ DOMAIN o2.features = DOMAIN o.features
               /\ \A k \in DOMAIN o.features :
                    IF k \in ListKeys(o.unit_type)
                    THEN /\ Len(o2.features[k]) = Len(o.features[k])
                         /\ \A i \in 1..Len(o.features[k]) :
                              o2.features[k][i] # o.features[k][i]
                                => o.features[k][i] = last'.old_name
                    ELSE o2.features[k] # o.features[k]
                           => o.features[k] = last'.old_name]_vars

\* a rename was saved whose unit lists its own old name and which rewrote a
\* two-entry list of another unit that holds the old name once
C26_Witness ==
  /\ last.op = "edit_unit" /\ last.outcome = "saved" /\ last.old_name # last.name
  /\ last.old_name \in OwnReferences(last.unit)
  /\ \E o \in get_units_by_story_id(units, last.story_id) :
       /\ o.id \in last.updated
       /\ Len(o.features["Who is part of the group?"]) = 2
       /\ \E i, j \in 1..2 :
            /\ o.features["Who is part of the group?"][i] = last.name
            /\ o.features["Who is part of the group?"][j] # last.name

\* C27: a name in undefined_names stays there through every request until
\* update_references_with_new_unit runs for a unit of that name; no edit that
\* drops the last reference to it and no delete takes it out.
C27_UndefinedUntilDefined ==
  [][\A s \in DOMAIN undefined :
       \A n \in SeqToSet(undefined[s]) :
          n \notin SeqToSet(undefined'[s])
            => (last'.outcome = "saved" /\ last'.story_id = s /\ last'.name = n)]_vars

\* an edit was saved after which an undefined name is referenced by no unit
C27_Witness ==
  /\ last.op = "edit_unit" /\ last.outcome = "saved"
  /\ \E n \in SeqToSet(undefined[last.story_id]) :
       n \notin ReferencedNames(units, last.story_id)

\* a step in which edit_unit saved a rename
RenameSaved ==
  last'.op = "edit_unit" /\ last'.outcome = "saved" /\ last'.old_name # last'.name

\* C28 as claimed: after a saved rename the old name is in undefined_names only
\* if it was there before, also when the unit's own lists hold the old name.
C28_RenameKeepsOldDefined ==
  [][RenameSaved =>
       (last'.old_name \in SeqToSet(undefined'[last'.story_id])
          => last'.old_name \in SeqToSet(undefined[last'.story_id]))]_vars

\* C28 as amended: after a saved rename the old name is in undefined_names only
\* if it was there before or a list of the renamed unit, as saved, holds it.
C28_RenameKeepsOldDefinedAmended ==
  [][RenameSaved =>
       (last'.old_name \in SeqToSet(undefined'[last'.story_id])
          => \/ last'.old_name \in SeqToSet(undefined[last'.story_id])
             \/ last'.old_name \in OwnReferences(last'.unit))]_vars

\* a rename was saved that rewrote another unit, the unit lists names of its
\* own, and its old name is not in undefined_names
C28_Witness ==
  /\ last.op = "edit_unit" /\ last.outcome = "saved" /\ last.old_name # last.name
  /\ last.updated # {}
  /\ OwnReferences(last.unit) # {}
  /\ last.old_name \notin SeqToSet(undefined[last.story_id])

\* C29: services.update_references_with_new_unit and
\* database_handler.update_references_with_new_unit, called with the same
\* units, unit and old_name, leave every other unit with the same features.
C29_ImplementationsAgree ==
  [][SavedStep =>
       \A o \in services_update_references_with_new_unit(
                  last'.unit, last'.old_name, TableBeforeReconcile) :
          o.id # last'.id =>
            \E o2 \in units' : o2.id = o.id /\ o2.features = o.features]_vars

\* a rename was saved that rewrote, in another unit, a list that held the old
\* name twice
C29_Witness ==
  /\ last.op = "edit_unit" /\ last.outcome = "saved" /\ last.old_name # last.name
  /\ \E o \in get_units_by_story_id(units, last.story_id) :
       /\ o.id \in last.updated
       /\ o.features["Who is part of the group?"] = <<last.name, last.name>>

\* C30: the name column of every unit equals the 'name' entry of its features.
C30_NameMatchesFeatures ==
  \A u \in units : u.features["name"] = u.name

\* a rename was saved in a story that holds a copied unit, and a string of
\* another unit was rewritten
C30_Witness ==
  /\ last.op = "edit_unit" /\ last.outcome = "saved" /\ last.old_name # last.name
  /\ \E o \in get_units_by_story_id(units, last.story_id) :
       /\ o.id \in last.updated
       /\ o.features["Reason for solidarity"] = last.name
       /\ o.features["Who is part of the group?"] # <<>>
       /\ o.features["name"] = o.name

====
